---- MODULE Spec2Model ----
(***************************************************************************)
(* A model of the scaffold-patching scripts of Central-Sequence-Service:   *)
(* clean_vapor_project, rollback_redoc_setup, setup_openapiserve,          *)
(* setup_openapimiddleware, validate_redoc_setup and the three fix_*       *)
(* scripts.                                                                *)
(*                                                                         *)
(* Text is a sequence of tokens (TLA+ strings); the newline is the token   *)
(* "\n".  In the generic text specification a token is one letter or the   *)
(* word docs; the literals of the scripts are cut into tokens on the       *)
(* boundaries of the patterns the scripts search for, and the letters of   *)
(* the generic patterns occur in none of them, so that Python's substring  *)
(* test `p in s` is the contiguous-subsequence test Contains(p, s).        *)
(*                                                                         *)
(* The file system is a function from paths (sequences of names, relative  *)
(* to the working directory) to nodes: a directory or a file with its      *)
(* text.                                                                   *)
(***************************************************************************)
EXTENDS Integers, Sequences, FiniteSets, TLC

VARIABLES
    fs,       \* the file system: path -> node
    out,      \* what the running (or last) script printed, in order
    pc,       \* "idle", or the step the running fix_* script is at
    pending,  \* os.walk: stack of directories still to be listed
    cur,      \* os.walk: the directory being processed and its files left
    pre,      \* the file system when the last operation started
    arg,      \* the last operation and its arguments
    nops      \* number of operations started so far

vars == <<fs, out, pc, pending, cur, pre, arg, nops>>

-----------------------------------------------------------------------------
(* Bounds of the model *)

MaxLen == 3      \* longest generic document, in tokens
MaxOps == 2      \* operations per behaviour of the text and project specifications
MaxRuns == 2     \* script runs per behaviour of the fix specification
MaxPkgLines == 3 \* longest Package.swift of the fix specification, in lines

-----------------------------------------------------------------------------
(* Text *)

NL == "\n"

\* Python `p in s` for strings: p is a contiguous part of s.
Contains(p, s) ==
    \E i \in 0..(Len(s) - Len(p)) : SubSeq(s, i + 1, i + Len(p)) = p

\* Index of the first newline of s, or Len(s) when there is none.
RECURSIVE LineEnd(_, _)
LineEnd(s, i) ==
    IF i >= Len(s) THEN Len(s)
    ELSE IF s[i] = NL THEN i
    ELSE LineEnd(s, i + 1)

\* file.readlines(): the lines of the text, each with its newline; a last
\* line without newline is kept as it is.
RECURSIVE readlines(_)
readlines(s) ==
    IF s = <<>> THEN <<>>
    ELSE LET k == LineEnd(s, 1)
         IN  <<SubSeq(s, 1, k)>> \o readlines(SubSeq(s, k + 1, Len(s)))

\* file.writelines(lines): the concatenation, nothing added between.
RECURSIVE writelines(_)
writelines(lines) ==
    IF lines = <<>> THEN <<>>
    ELSE Head(lines) \o writelines(Tail(lines))

-----------------------------------------------------------------------------
(* File system *)

Dir == [kind |-> "dir", data |-> <<>>]
File(s) == [kind |-> "file", data |-> s]

exists(f, p) == p \in DOMAIN f
isdir(f, p) == p \in DOMAIN f /\ f[p].kind = "dir"
isfile(f, p) == p \in DOMAIN f /\ f[p].kind = "file"

dirname(p) == SubSeq(p, 1, Len(p) - 1)
basename(p) == p[Len(p)]
join(p, q) == p \o q
IsPrefix(p, q) == Len(p) <= Len(q) /\ SubSeq(q, 1, Len(p)) = p

\* f with p bound to node n (p added when absent).
Put(f, p, n) == [q \in DOMAIN f \cup {p} |-> IF q = p THEN n ELSE f[q]]

\* f without p and everything below p.
Drop(f, p) == [q \in {r \in DOMAIN f : ~IsPrefix(p, r)} |-> f[q]]

\* open(p, "w") can create or truncate p: its directory exists, p is no directory.
CanWrite(f, p) == isdir(f, dirname(p)) /\ ~isdir(f, p)

\* os.makedirs(p, exist_ok=True) succeeds: no file lies on the way. The empty
\* path, the directory part of a bare file name, makes it raise.
CanMakedirs(f, p) == p # <<>> /\ \A k \in 0..Len(p) : ~isfile(f, SubSeq(p, 1, k))

makedirs(f, p) ==
    [q \in DOMAIN f \cup {SubSeq(p, 1, k) : k \in 0..Len(p)} |->
        IF q \in DOMAIN f THEN f[q] ELSE Dir]

\* os.listdir(p): the names directly under p.
listdir(f, p) == {basename(q) : q \in {r \in DOMAIN f : Len(r) = Len(p) + 1 /\ IsPrefix(p, r)}}

-----------------------------------------------------------------------------
(* A script run: the file system, what was printed, and whether the run is *)
(* still alive (an uncaught exception ends it where it is).                *)

Start(f) == [fs |-> f, out |-> <<>>, ok |-> TRUE]
printed(st, m) == [st EXCEPT !.out = Append(st.out, m)]
Crash(st) == [st EXCEPT !.ok = FALSE]
written(st, p, s) == [st EXCEPT !.fs = Put(st.fs, p, File(s))]

-----------------------------------------------------------------------------
(* Paths of the project, relative to the working directory *)

APP_DIR == <<"Sources", "App">>
routes_file == <<"Sources", "App", "routes.swift">>
configure_file == <<"Sources", "App", "configure.swift">>
controllers_dir == <<"Sources", "App", "Controllers">>
migrations_dir == <<"Sources", "App", "Migrations">>
resources_dir == <<"Resources">>
openapi_dir == <<"Resources", "OpenAPI">>
views_dir == <<"Resources", "Views">>
public_dir == <<"Public">>
redoc_assets_dir == <<"Public", "redoc">>
openapi_file == <<"Resources", "OpenAPI", "openapi.yml">>
redoc_leaf_file == <<"Resources", "Views", "redoc.leaf">>
redoc_css_file == <<"Public", "redoc", "redoc.standalone.css">>
redoc_js_file == <<"Public", "redoc", "redoc.standalone.js">>
PACKAGE_FILE == <<"Package.swift">>

-----------------------------------------------------------------------------
(* PatternFilter: clean_file and the filters of rollback_redoc_setup *)

\* any(pattern in line for pattern in patterns_to_remove), only some pattern
\* replaced by every pattern: the slip of `all` for `any`.
LineMatchesAll(line, patterns) == \A p \in patterns : Contains(p, line)

\* any(pattern in line for pattern in patterns_to_remove)
LineMatches(line, patterns) == \E p \in patterns : Contains(p, line)

\* [line for line in lines if not any(...)], built line by line.
RECURSIVE FilterLines(_, _)
FilterLines(lines, patterns) ==
    IF lines = <<>> THEN <<>>
    ELSE IF LineMatches(Head(lines), patterns)
         THEN FilterLines(Tail(lines), patterns)
         ELSE <<Head(lines)>> \o FilterLines(Tail(lines), patterns)

clean_file(st, file_path, patterns_to_remove) ==
    IF ~st.ok THEN st
    ELSE IF ~exists(st.fs, file_path)
         THEN printed(st, <<"File not found", file_path>>)
    ELSE IF isdir(st.fs, file_path) THEN Crash(st)
    ELSE LET lines == readlines(st.fs[file_path].data)
             cleaned_lines == FilterLines(lines, patterns_to_remove)
         IN  printed(written(st, file_path, writelines(cleaned_lines)),
                     <<"Cleaned file", file_path>>)

\* rollback_actions.append(m): the messages are kept in the out field of the
\* run until rollback_redoc_setup prints them at its end.
rollback_action(st, m) == [st EXCEPT !.out = Append(st.out, m)]

\* shutil.rmtree(p) behind `if os.path.exists(p)`; a file at p makes it raise.
rollback_rmtree(st, p) ==
    IF ~st.ok THEN st
    ELSE IF ~exists(st.fs, p)
         THEN rollback_action(st, <<"Directory not found (already removed)", p>>)
    ELSE IF isfile(st.fs, p) THEN Crash(st)
    ELSE rollback_action([st EXCEPT !.fs = Drop(st.fs, p)], <<"Removed directory", p>>)

\* os.remove(p) behind `if os.path.exists(p)`; a directory at p makes it raise.
rollback_remove(st, p) ==
    IF ~st.ok THEN st
    ELSE IF ~exists(st.fs, p)
         THEN rollback_action(st, <<"File not found (already removed)", p>>)
    ELSE IF isdir(st.fs, p) THEN Crash(st)
    ELSE rollback_action([st EXCEPT !.fs = Drop(st.fs, p)], <<"Removed file", p>>)

\* The filter of one file in rollback_redoc_setup: written back only when a
\* line was dropped.
rollback_clean(st, p, patterns, cleaned, untouched) ==
    IF ~st.ok \/ ~exists(st.fs, p) THEN st
    ELSE IF isdir(st.fs, p) THEN Crash(st)
    ELSE LET content == readlines(st.fs[p].data)
             cleaned_content == FilterLines(content, patterns)
         IN  IF Len(cleaned_content) # Len(content)
             THEN rollback_action(written(st, p, writelines(cleaned_content)), <<cleaned>>)
             ELSE rollback_action(st, <<untouched>>)

RoutesRollbackPatterns == {<<"openapi.yml">>, <<"docs">>}
ConfigureRollbackPatterns == {<<".leaf">>}

\* rollback_redoc_setup(): the five steps, then the messages collected and
\* the closing line are printed; a step that raises ends the run before
\* anything is printed.
rollback_redoc_setup(f) ==
    LET s1 == rollback_rmtree(Start(f), openapi_dir)
        s2 == rollback_remove(s1, redoc_leaf_file)
        s3 == rollback_rmtree(s2, redoc_assets_dir)
        s4 == rollback_clean(s3, routes_file, RoutesRollbackPatterns,
                  "Cleaned routes.swift of references to OpenAPI or ReDoc routes",
                  "No OpenAPI or ReDoc references found in routes.swift")
        s5 == rollback_clean(s4, configure_file, ConfigureRollbackPatterns,
                  "Cleaned configure.swift of Leaf configuration",
                  "No Leaf configuration found in configure.swift")
    IN  IF s5.ok THEN printed(s5, <<"Rollback complete">>) ELSE [s5 EXCEPT !.out = <<>>]

-----------------------------------------------------------------------------
(* MarkerInsert: append_to_file of setup_openapiserve and                  *)
(* setup_openapimiddleware (the two are the same code)                     *)

NoMarker == <<>>    \* marker=None; an empty marker is as falsy as None

\* for i, line in enumerate(lines): if marker in line: the first such i, or 0.
RECURSIVE FirstMatch(_, _, _)
FirstMatch(lines, marker, i) ==
    IF i > Len(lines) THEN 0
    ELSE IF Contains(marker, lines[i]) THEN i
    ELSE FirstMatch(lines, marker, i + 1)

\* lines.insert(i, x) for 0 <= i <= len(lines), i counted from 0.
insert(lines, i, x) == SubSeq(lines, 1, i) \o <<x>> \o SubSeq(lines, i + 1, Len(lines))


\* The slip of an insert that checks first whether the block is already there.
InsertedLinesOnce(lines, content, marker) ==
    LET i == IF marker = NoMarker THEN 0 ELSE FirstMatch(lines, marker, 1)
    IN  IF Contains(content, writelines(lines)) THEN lines
        ELSE IF i = 0 THEN Append(lines, content \o <<NL>>)
        ELSE insert(lines, i, content \o <<NL>>)

\* The list `lines` after the if/for/else of append_to_file.
InsertedLines(lines, content, marker) ==
    LET i == IF marker = NoMarker THEN 0 ELSE FirstMatch(lines, marker, 1)
    IN  IF i = 0 THEN Append(lines, content \o <<NL>>)
        ELSE insert(lines, i, content \o <<NL>>)

append_to_file(st, file_path, content, marker) ==
    IF ~st.ok THEN st
    ELSE IF ~exists(st.fs, file_path)
         THEN IF CanWrite(st.fs, file_path)
              THEN written(st, file_path, content)
              ELSE Crash(st)
    ELSE IF isdir(st.fs, file_path) THEN Crash(st)
    ELSE LET lines == readlines(st.fs[file_path].data)
         IN  written(st, file_path, writelines(InsertedLines(lines, content, marker)))

-----------------------------------------------------------------------------
(* The text specification: clean_file, rollback_redoc_setup and            *)
(* append_to_file applied to routes.swift holding any short document.      *)

\* The letters z and Z occur in no literal text of the scripts, so that a
\* pattern made of them is found in a text exactly where its tokens are.
CharSet == {"z", "Z", "docs", NL}
Docs == UNION {[1..k -> CharSet] : k \in 0..MaxLen}

\* The document and the patterns of the end-to-end scenario.
ExampleDoc ==
    <<"import Vapor", NL,
      "app.get(\"", "todo", "\")", NL,
      "app.migrations.add", "(", "CreateTodo", "())", NL>>
ExamplePatterns == {<<"CreateTodo">>, <<"register(collection:">>}
ExampleResult ==
    <<"import Vapor", NL,
      "app.get(\"", "todo", "\")", NL>>

PatternSets == (SUBSET {<<"z">>, <<"Z", "z">>}) \cup {ExamplePatterns}
Contents == {<<"z">>, <<"Z", NL>>, <<"z", NL, "Z">>}
Markers == {NoMarker, <<"Z">>}

\* A project with its Sources/App directory and nothing in it.
BaseFs ==
    [q \in {<<>>, <<"Sources">>, APP_DIR} |-> Dir]

\* The record of the last operation: its name and arguments, whether it ran
\* to its end, how many times in a row it has now run with these arguments,
\* the file system before the first run of that row, how many runs of
\* the row did not reach their end (stopped from outside, or raised), and
\* the operation that came before the row ("failed" when it raised) with
\* the file system it began in.
NoArg ==
    [op |-> "none", path |-> <<>>, patterns |-> {}, content |-> <<>>,
     marker |-> NoMarker, ok |-> TRUE, streak |-> 0, base |-> <<>>, cut |-> 0,
     from |-> "none", origin |-> <<>>]

SameCall(a, b) ==
    /\ a.op = b.op /\ a.path = b.path /\ a.patterns = b.patterns
    /\ a.content = b.content /\ a.marker = b.marker

InitText ==
    /\ fs \in {BaseFs} \cup {Put(BaseFs, routes_file, File(d)) : d \in Docs \cup {ExampleDoc}}
    /\ out = <<>>
    /\ pc = "idle"
    /\ pending = <<>>
    /\ cur = <<>>
    /\ pre = fs
    /\ arg = NoArg
    /\ nops = 0

\* The end of an operation that ran as one step: its file system, its output.
Ran(r, a) ==
    /\ fs' = r.fs
    /\ out' = r.out
    /\ pre' = fs
    /\ arg' = IF SameCall(a, arg) /\ arg.ok
               THEN [a EXCEPT !.ok = r.ok, !.streak = arg.streak + 1, !.base = arg.base,
                              !.from = arg.from, !.origin = arg.origin]
               ELSE [a EXCEPT !.ok = r.ok, !.streak = 1, !.base = fs,
                              !.from = IF arg.ok THEN arg.op ELSE "failed",
                              !.origin = pre]
    /\ nops' = nops + 1
    /\ UNCHANGED <<pc, pending, cur>>

CleanFile ==
    /\ nops < MaxOps
    /\ \E p \in {routes_file, configure_file}, P \in PatternSets :
          Ran(clean_file(Start(fs), p, P),
              [NoArg EXCEPT !.op = "clean_file", !.path = p, !.patterns = P])

Rollback ==
    /\ nops < MaxOps
    /\ Ran(rollback_redoc_setup(fs), [NoArg EXCEPT !.op = "rollback"])

AppendToFile ==
    /\ nops < MaxOps
    /\ \E p \in {routes_file}, c \in Contents, m \in Markers :
          Ran(append_to_file(Start(fs), p, c, m),
              [NoArg EXCEPT !.op = "append_to_file", !.path = p,
                            !.content = c, !.marker = m])

NextText == CleanFile \/ Rollback \/ AppendToFile

SpecText == InitText /\ [][NextText]_vars

-----------------------------------------------------------------------------
(* C1 *)

\* The indexes of the lines of D that contain none of the patterns of P.
Kept(D, P) == {i \in 1..Len(D) : \A p \in P : ~Contains(p, D[i])}

\* The j-th smallest element of the set of numbers S.
Nth(S, j) == CHOOSE i \in S : Cardinality({k \in S : k <= i}) = j

\* R is D restricted to the lines that contain no pattern of P, in D's order.
IsFilterOf(R, D, P) ==
    /\ Len(R) = Cardinality(Kept(D, P))
    /\ \A j \in 1..Len(R) : R[j] = D[Nth(Kept(D, P), j)]

\* File p of the file system f is file p of g filtered by P.
FilteredFile(f, g, p, P) ==
    isfile(g, p) =>
        /\ isfile(f, p)
        /\ IsFilterOf(readlines(f[p].data), readlines(g[p].data), P)

\* C1: what clean_file and the filters of rollback_redoc_setup write is exactly
\* the lines of the document that contain none of the patterns, in their
\* order and unchanged; with no pattern the document is unchanged; the
\* end-to-end scenario yields its two lines.
C1_PatternFilter ==
    /\ (arg.op = "clean_file" /\ arg.ok) =>
          /\ FilteredFile(fs, pre, arg.path, arg.patterns)
          /\ DOMAIN fs = DOMAIN pre
          /\ \A q \in DOMAIN fs : q # arg.path => fs[q] = pre[q]
          /\ (arg.patterns = {} => fs = pre)
          /\ (isfile(pre, arg.path) /\ pre[arg.path].data = ExampleDoc
                 /\ arg.patterns = ExamplePatterns)
             => fs[arg.path].data = ExampleResult
    /\ (arg.op = "rollback" /\ arg.ok) =>
          /\ FilteredFile(fs, pre, routes_file, RoutesRollbackPatterns)
          /\ FilteredFile(fs, pre, configure_file, ConfigureRollbackPatterns)

\* clean_file dropped a line and kept a line.
C1_Witness ==
    /\ arg.op = "clean_file"
    /\ isfile(pre, arg.path)
    /\ Len(readlines(fs[arg.path].data)) > 0
    /\ Len(readlines(fs[arg.path].data)) < Len(readlines(pre[arg.path].data))

-----------------------------------------------------------------------------
(* C2 *)

\* A line without its newline.
Chomp(line) ==
    IF line # <<>> /\ line[Len(line)] = NL THEN SubSeq(line, 1, Len(line) - 1)
    ELSE line

\* The lines of a text, as a document: without their newlines.
DocLines(s) == [i \in 1..Len(readlines(s)) |-> Chomp(readlines(s)[i])]

\* The indexes of the lines of document D that contain marker M.
Anchors(D, M) == {i \in 1..Len(D) : M # NoMarker /\ Contains(M, D[i])}

\* Document D with the lines of C placed after line i (after the last line
\* when i is Len(D)).
PlacedAfter(D, i, C) == SubSeq(D, 1, i) \o C \o SubSeq(D, i + 1, Len(D))

\* C2: append_to_file on an existing file puts the lines of the content right
\* after the first line that contains the marker and leaves every other line
\* as it was; with no line containing the marker the result is the document
\* followed by the content.
C2_MarkerInsert ==
    (arg.op = "append_to_file" /\ arg.ok /\ isfile(pre, arg.path)) =>
        LET D == DocLines(pre[arg.path].data)
            C == DocLines(arg.content)
            R == DocLines(fs[arg.path].data)
            A == Anchors(D, arg.marker)
        IN  IF A # {}
            THEN R = PlacedAfter(D, Nth(A, 1), C)
            ELSE R = D \o C

-----------------------------------------------------------------------------
(* The literal texts of the scripts, cut into tokens *)

GetOpenapiRoute == <<"app.get(\"", "openapi.yml", "\")">>   \* app.get("openapi.yml")
GetDocsRoute == <<"app.get(\"", "docs", "\")">>             \* app.get("docs")
UseLeaf == <<"app.views.use(", ".leaf", ")">>               \* app.views.use(.leaf)

\* create_openapi_solution: openapi_placeholder, redoc_template, routes_content
openapi_placeholder == <<"# OpenAPI Specification Placeholder ...", NL>>
redoc_template == <<"<!DOCTYPE html> ... cdn.jsdelivr.net ... </html>", NL>>
routes_content ==
    <<NL,
      "import Vapor", NL,
      NL,
      "func routes(_ app: Application) throws {", NL,
      "    // Serve the OpenAPI spec", NL,
      "    ", "app.get(\"", "openapi.yml", "\")", " { req -> Response in", NL,
      "        let filePath = app.directory.resourcesDirectory + \"OpenAPI/",
          "openapi.yml", "\"", NL,
      "        return req.fileio.streamFile(at: filePath)", NL,
      "    }", NL,
      NL,
      "    // Serve the ReDoc documentation page", NL,
      "    ", "app.get(\"", "docs", "\")", " { req -> View in", NL,
      "        return req.view.render(\"redoc\")", NL,
      "    }", NL,
      "}", NL>>

\* setup_redoc_vapor: openapi_content is the same placeholder; redoc_leaf_content
redoc_leaf_content == <<"<!DOCTYPE html> ... /redoc/redoc.standalone ... </html>", NL>>

\* What a project made by `vapor new` holds in routes.swift and configure.swift.
RoutesDefault ==
    <<"import Vapor", NL,
      "func routes(_ app: Application) throws {", NL,
      "    try app.", "register(collection:", " ", "TodoController", "())", NL,
      "}", NL>>
ConfigureDefault ==
    <<"import Vapor", NL,
      "public func configure", "(_ app: Application) throws {", NL,
      "    ", "app.migrations.add", "(", "CreateTodo", "())", NL,
      "    try routes(app)", NL,
      "}", NL>>
ConfigureLeaf ==
    <<"import Vapor", NL,
      "public func configure", "(_ app: Application) throws {", NL,
      "    ", "app.views.use(", ".leaf", ")", NL,
      "    try routes(app)", NL,
      "}", NL>>

-----------------------------------------------------------------------------
(* ScaffoldValidator: validate_redoc_setup *)

\* results.append(m) when the test fails.
Check(results, passes, m) == IF passes THEN results ELSE Append(results, m)

\* The checks of one source file: it is a file, and its text holds the markers.
CheckMarkers(results, f, p, markers) ==
    IF ~isfile(f, p) THEN Append(results, <<"Missing file", p>>)
    ELSE LET content == f[p].data
             RECURSIVE Each(_, _)
             Each(rs, ms) ==
                 IF ms = <<>> THEN rs
                 ELSE Each(Check(rs, Contains(Head(ms)[1], content), <<Head(ms)[2], p>>),
                           Tail(ms))
         IN  Each(results, markers)

\* The checks without the one of configure.swift: the slip of a dropped check.
validate_results_no_configure(f) ==
    LET r1 == Check(<<>>, isdir(f, openapi_dir), <<"Missing directory", openapi_dir>>)
        r2 == Check(r1, isdir(f, views_dir), <<"Missing directory", views_dir>>)
        r3 == Check(r2, isdir(f, redoc_assets_dir), <<"Missing directory", redoc_assets_dir>>)
        r4 == Check(r3, isfile(f, openapi_file), <<"Missing file", openapi_file>>)
        r5 == Check(r4, isfile(f, redoc_leaf_file), <<"Missing file", redoc_leaf_file>>)
        r6 == Check(r5, isfile(f, redoc_css_file), <<"Missing file", redoc_css_file>>)
        r7 == Check(r6, isfile(f, redoc_js_file), <<"Missing file", redoc_js_file>>)
    IN  CheckMarkers(r7, f, routes_file,
            << <<GetOpenapiRoute, "Route for '/openapi.yml' not found in">>,
               <<GetDocsRoute, "Route for '/docs' not found in">> >>)

\* The list `results` of validate_redoc_setup.
validate_results(f) ==
    LET r1 == Check(<<>>, isdir(f, openapi_dir), <<"Missing directory", openapi_dir>>)
        r2 == Check(r1, isdir(f, views_dir), <<"Missing directory", views_dir>>)
        r3 == Check(r2, isdir(f, redoc_assets_dir), <<"Missing directory", redoc_assets_dir>>)
        r4 == Check(r3, isfile(f, openapi_file), <<"Missing file", openapi_file>>)
        r5 == Check(r4, isfile(f, redoc_leaf_file), <<"Missing file", redoc_leaf_file>>)
        r6 == Check(r5, isfile(f, redoc_css_file), <<"Missing file", redoc_css_file>>)
        r7 == Check(r6, isfile(f, redoc_js_file), <<"Missing file", redoc_js_file>>)
        r8 == CheckMarkers(r7, f, routes_file,
                  << <<GetOpenapiRoute, "Route for '/openapi.yml' not found in">>,
                     <<GetDocsRoute, "Route for '/docs' not found in">> >>)
    IN  CheckMarkers(r8, f, configure_file,
            << <<UseLeaf, "Leaf configuration not found in">> >>)

\* A validator that repairs what it finds missing: the slip C8 excludes.
validate_redoc_setup_repairing(f) ==
    LET results == validate_results(f)
    IN  [fs |-> IF CanMakedirs(f, openapi_dir) THEN makedirs(f, openapi_dir) ELSE f,
         out |-> IF results # <<>> THEN <<"Validation Failed">> \o results
                 ELSE <<"Validation Passed">>,
         ok |-> TRUE]

validate_redoc_setup(f) ==
    LET results == validate_results(f)
    IN  [fs |-> f,
         out |-> IF results # <<>> THEN <<"Validation Failed">> \o results
                 ELSE <<"Validation Passed">>,
         ok |-> TRUE]

-----------------------------------------------------------------------------
(* setup_redoc_vapor and create_openapi_solution *)

\* os.makedirs(p, exist_ok=True) as a step of a run.
made(st, p) ==
    IF ~st.ok THEN st
    ELSE IF CanMakedirs(st.fs, p) THEN [st EXCEPT !.fs = makedirs(st.fs, p)]
    ELSE Crash(st)

\* with open(p, "w") as f: f.write(s), as a step of a run.
write_file(st, p, s) ==
    IF ~st.ok THEN st
    ELSE IF CanWrite(st.fs, p) THEN written(st, p, s)
    ELSE Crash(st)

\* if not os.path.exists(p) or open(p).read() != s: write s.
ensure_content(st, p, s, what) ==
    IF ~st.ok THEN st
    ELSE IF ~exists(st.fs, p) THEN printed(write_file(st, p, s), <<"Created or updated", what>>)
    ELSE IF isdir(st.fs, p) THEN Crash(st)
    ELSE IF st.fs[p].data # s THEN printed(written(st, p, s), <<"Created or updated", what>>)
    ELSE printed(st, <<"already exists and is up-to-date", what>>)

\* What requests.get can do: answer 200, answer another status, or raise.
Responses == {"200", "failed", "raised"}

\* One round of the download loop; the body of the answer is not known to
\* the script and is written as it comes.
download(st, file_name, response) ==
    LET file_path == join(redoc_assets_dir, <<file_name>>)
    IN  IF ~st.ok THEN st
        ELSE IF exists(st.fs, file_path) THEN printed(st, <<"already exists", file_name>>)
        ELSE IF response = "raised" THEN Crash(st)
        ELSE IF response = "200"
             THEN printed(write_file(st, file_path, <<"body of", file_name>>),
                          <<"Downloaded and saved", file_name>>)
        ELSE printed(st, <<"Failed to download", file_name>>)

\* setup_vapor_redoc(), with the answers the network gives to its two requests.
setup_vapor_redoc(f, net) ==
    LET s1 == made(made(made(Start(f), views_dir), openapi_dir), redoc_assets_dir)
        s2 == ensure_content(s1, openapi_file, openapi_placeholder, "OpenAPI spec placeholder")
        s3 == download(s2, "redoc.standalone.css", net[1])
        s4 == download(s3, "redoc.standalone.js", net[2])
        s5 == ensure_content(s4, redoc_leaf_file, redoc_leaf_content, "ReDoc Leaf template")
    IN  IF s5.ok THEN printed(s5, <<"Setup complete">>) ELSE s5

create_openapi_solution(f) ==
    LET s1 == made(made(Start(f), openapi_dir), views_dir)
        s2 == write_file(s1, openapi_file, openapi_placeholder)
        s3 == write_file(s2, redoc_leaf_file, redoc_template)
        s4 == write_file(s3, routes_file, routes_content)
    IN  IF s4.ok THEN printed(s4, <<"Routes updated at", routes_file>>) ELSE s4

-----------------------------------------------------------------------------
(* The validation specification: validate_redoc_setup, setup_redoc_vapor,  *)
(* create_openapi_solution and rollback_redoc_setup on a project that      *)
(* holds any part of the expected artifacts.                               *)

\* The file system with the directories ds (and all above them) and the
\* files of the function files.
Tree(ds, files) ==
    LET above == UNION {{SubSeq(p, 1, k) : k \in 0..(Len(p) - 1)} :
                           p \in ds \cup DOMAIN files}
        dirs == {q \in above \cup ds : q \notin DOMAIN files}
    IN  [q \in dirs \cup DOMAIN files |->
            IF q \in DOMAIN files THEN File(files[q]) ELSE Dir]

ArtifactDirs == {openapi_dir, views_dir, redoc_assets_dir}
ArtifactFiles == {openapi_file, redoc_leaf_file, redoc_css_file, redoc_js_file}
ExpectedFiles == ArtifactFiles \cup {routes_file, configure_file}

ArtifactText(p) ==
    IF p = openapi_file THEN openapi_placeholder
    ELSE IF p = redoc_leaf_file THEN redoc_leaf_content
    ELSE <<"body of", basename(p)>>

NoText == <<"no file">>
RoutesTexts == {NoText, RoutesDefault, routes_content}
ConfigureTexts == {NoText, ConfigureDefault, ConfigureLeaf}

\* A project: some artifact directories, some artifact files in them, and
\* the two source files with one of their texts, or without them.
Project(ds, fls, r, c) ==
    LET srcs == {p \in {routes_file, configure_file} :
                    (IF p = routes_file THEN r ELSE c) # NoText}
        text(p) == IF p = routes_file THEN r
                   ELSE IF p = configure_file THEN c
                   ELSE ArtifactText(p)
    IN  Tree(ds \cup {APP_DIR}, [p \in fls \cup srcs |-> text(p)])

InitValidate ==
    /\ fs \in {Project(ds, fls, r, c) :
                 ds \in SUBSET ArtifactDirs,
                 fls \in SUBSET ArtifactFiles,
                 r \in RoutesTexts, c \in ConfigureTexts}
    /\ out = <<>>
    /\ pc = "idle"
    /\ pending = <<>>
    /\ cur = <<>>
    /\ pre = fs
    /\ arg = NoArg
    /\ nops = 0

Validate ==
    /\ nops < MaxOps
    /\ Ran(validate_redoc_setup(fs), [NoArg EXCEPT !.op = "validate"])

SetupRedoc ==
    /\ nops < MaxOps
    /\ \E net \in Responses \X Responses :
          Ran(setup_vapor_redoc(fs, net), [NoArg EXCEPT !.op = "setup_vapor_redoc"])

CreateSolution ==
    /\ nops < MaxOps
    /\ Ran(create_openapi_solution(fs), [NoArg EXCEPT !.op = "create_openapi_solution"])

NextValidate == Validate \/ SetupRedoc \/ CreateSolution \/ Rollback

SpecValidate == InitValidate /\ [][NextValidate]_vars

-----------------------------------------------------------------------------
(* C6 *)

\* Every expected artifact other than file p is in place: the directories,
\* the files, the two routes and the Leaf configuration.
AllInPlaceBut(f, p) ==
    /\ \A d \in ArtifactDirs : isdir(f, d)
    /\ \A q \in ExpectedFiles \ {p} : isfile(f, q)
    /\ p # routes_file =>
          /\ Contains(GetOpenapiRoute, f[routes_file].data)
          /\ Contains(GetDocsRoute, f[routes_file].data)
    /\ p # configure_file => Contains(UseLeaf, f[configure_file].data)

\* C6: with every expected artifact present the validator lists nothing; with
\* exactly one expected file missing from such a tree it lists exactly one
\* discrepancy, which names that file.
C6_ValidatorReport ==
    arg.op = "validate" =>
        /\ AllInPlaceBut(fs, <<>>) => out = <<"Validation Passed">>
        /\ \A p \in ExpectedFiles :
              (~exists(fs, p) /\ AllInPlaceBut(fs, p))
                  => out = <<"Validation Failed", <<"Missing file", p>> >>

\* The validator ran on a tree that lacks configure.swift and nothing else.
C6_Witness ==
    /\ arg.op = "validate"
    /\ ~exists(fs, configure_file)
    /\ AllInPlaceBut(fs, configure_file)
    /\ Len(out) = 2

-----------------------------------------------------------------------------
(* C8 *)

\* C8: a run of validate_redoc_setup leaves every directory, every file and
\* every file's text as it found them, whether it passes or fails.
C8_ValidatorFrame == [][Validate => fs' = fs]_vars

\* The validator ran and reported discrepancies.
C8_Witness ==
    /\ arg.op = "validate"
    /\ Len(out) > 1
    /\ out[1] = "Validation Failed"

-----------------------------------------------------------------------------
(* setup_openapiserve, setup_openapimiddleware and clean_vapor_project *)

DependenciesMarker == <<"dependencies: [">>
ConfigureMarker == <<"public func configure">>

\* setup_openapiserve.main: the texts it inserts or creates
package_dependency ==
    <<".package(url: \"https://github.com/Contexter/OpenAPIServe.git\", from: \"1.0.0\"),">>
target_dependency == <<".product(name: \"OpenAPIServe\", package: \"OpenAPIServe\")">>
openapi_content == <<NL, "openapi: 3.0.0 ... paths: {}", NL>>
middleware_content ==
    <<NL,
      "    // Middleware configuration for OpenAPIServe", NL,
      "    let openapiFilePath = app.directory.resourcesDirectory + \"", "openapi.yml", "\"", NL,
      "    app.middleware.use(OpenAPIMiddleware(filePath: openapiFilePath))", NL>>
route_content ==
    <<NL,
      "app.get(\"", "docs", "\")", " { req -> EventLoopFuture<View> in", NL,
      "    let context = [\"specURL\": \"/", "openapi.yml", "\"]", NL,
      "    return req.view.render(\"redoc\", context)", NL,
      "}", NL>>
redoc_content == <<NL, "<!DOCTYPE html> ... redoc@next ... </html>", NL>>

\* setup_openapimiddleware.main: the texts it inserts or creates
file_data_provider_content == <<NL, "import Vapor ... public struct FileDataProvider ...", NL>>
configure_content ==
    <<NL,
      "    // Middleware configuration for OpenAPIServe", NL,
      "    let openapiFilePath = app.directory.resourcesDirectory + \"", "openapi.yml", "\"", NL,
      "    let dataProvider = FileDataProvider(filePath: openapiFilePath)", NL,
      "    app.middleware.use(OpenAPIMiddleware(dataProvider: dataProvider))", NL>>

serve_openapi_file == <<"Sources", "Resources", "openapi.yml">>
file_data_provider_path == <<"Sources", "App", "Providers", "FileDataProvider.swift">>

\* create_file of setup_openapiserve: nothing is done to a path that exists.
create_file(st, file_path, content) ==
    IF ~st.ok \/ exists(st.fs, file_path) THEN st
    ELSE write_file(made(st, dirname(file_path)), file_path, content)

\* main() of setup_openapiserve
setup_openapiserve(f) ==
    LET s1 == append_to_file(Start(f), PACKAGE_FILE, package_dependency, DependenciesMarker)
        s2 == append_to_file(s1, PACKAGE_FILE, target_dependency, DependenciesMarker)
        s3 == create_file(s2, serve_openapi_file, openapi_content)
        s4 == append_to_file(s3, configure_file, middleware_content, ConfigureMarker)
        s5 == append_to_file(s4, routes_file, route_content, NoMarker)
        s6 == create_file(s5, redoc_leaf_file, redoc_content)
    IN  IF s6.ok THEN printed(s6, <<"OpenAPIServe integration complete">>) ELSE s6

\* main() of setup_openapimiddleware; its write_file makes the directories.
setup_openapimiddleware(f) ==
    LET s1 == write_file(made(Start(f), dirname(file_data_provider_path)),
                         file_data_provider_path, file_data_provider_content)
        s2 == IF s1.ok THEN printed(s1, <<"Created", file_data_provider_path>>) ELSE s1
        s3 == append_to_file(s2, configure_file, configure_content, ConfigureMarker)
    IN  IF s3.ok
        THEN printed(printed(s3, <<"Updated", configure_file>>),
                     <<"OpenAPIMiddleware setup complete">>)
        ELSE s3

\* The file names of the model, cut into tokens for the test `"Todo" in file_name`.
NameTokens(n) ==
    IF n = "TodoController.swift" THEN <<"Todo", "Controller.swift">>
    ELSE IF n = "CreateTodo.swift" THEN <<"Create", "Todo", ".swift">>
    ELSE <<n>>

\* for file_name in os.listdir(d): if "Todo" in file_name: os.remove(...),
\* with the names in the order the listing gave them.
RECURSIVE remove_todo(_, _, _)
remove_todo(st, d, names) ==
    IF ~st.ok \/ names = <<>> THEN st
    ELSE LET file_path == join(d, <<Head(names)>>)
         IN  IF ~Contains(<<"Todo">>, NameTokens(Head(names)))
             THEN remove_todo(st, d, Tail(names))
             ELSE IF isdir(st.fs, file_path) THEN Crash(st)
             ELSE remove_todo(printed([st EXCEPT !.fs = Drop(st.fs, file_path)],
                                      <<"Removed file", file_path>>),
                              d, Tail(names))

\* if os.path.exists(d): the loop above; listing a file raises.
remove_todo_in(st, d, names) ==
    IF ~st.ok \/ ~exists(st.fs, d) THEN st
    ELSE IF isfile(st.fs, d) THEN Crash(st)
    ELSE remove_todo(st, d, names)

\* The orders in which a listing can give the names of the set S.
Orders(S) ==
    {q \in [1..Cardinality(S) -> S] : \A i, j \in 1..Cardinality(S) : q[i] = q[j] => i = j}

\* clean_vapor_project(base_dir), with the orders of its two listings.
clean_vapor_project(f, controllers, migrations) ==
    LET s1 == clean_file(Start(f), routes_file,
                         {<<"TodoController">>, <<"register(collection:">>})
        s2 == clean_file(s1, configure_file,
                         {<<"CreateTodo">>, <<"app.migrations.add">>})
        s3 == remove_todo_in(s2, controllers_dir, controllers)
        s4 == remove_todo_in(s3, migrations_dir, migrations)
    IN  IF s4.ok THEN printed(s4, <<"Cleanup completed">>) ELSE s4

-----------------------------------------------------------------------------
(* The setup specification: the setup scripts, the cleanup and the         *)
(* rollback on a project as `vapor new` or an earlier setup left it.       *)

PackageDefault ==
    <<"let package = Package(", NL,
      "    ", "dependencies: [", NL,
      "        .package(url: \"https://github.com/vapor/vapor.git\", from: \"4.0.0\"),", NL,
      "    ],", NL,
      "    targets: [ .executableTarget(name: \"App\", ", "dependencies: [", NL,
      "        .product(name: \"Vapor\", package: \"vapor\"),", NL,
      "    ]) ]", NL,
      ")", NL>>

\* routes.swift as `vapor new` leaves it, its last line without a newline.
RoutesUnterminated == SubSeq(RoutesDefault, 1, Len(RoutesDefault) - 1)

TodoFiles ==
    [p \in {join(controllers_dir, <<"TodoController.swift">>),
            join(controllers_dir, <<"UserController.swift">>),
            join(migrations_dir, <<"CreateTodo.swift">>)} |-> <<"swift source", NL>>]

\* The function g extended by f where g is not defined.
Over(f, g) == [q \in DOMAIN f \cup DOMAIN g |-> IF q \in DOMAIN g THEN g[q] ELSE f[q]]

SetupProject(r, c, pk, todo) ==
    LET texts == [p \in {routes_file, configure_file, PACKAGE_FILE} |->
                     IF p = routes_file THEN r ELSE IF p = configure_file THEN c ELSE pk]
        srcs == {p \in DOMAIN texts : texts[p] # NoText}
        files == [p \in srcs |-> texts[p]]
    IN  Tree({APP_DIR}, IF todo THEN Over(files, TodoFiles) ELSE files)

InitSetup ==
    /\ fs \in {SetupProject(r, c, pk, todo) :
                 r \in RoutesTexts \cup {RoutesUnterminated},
                 c \in ConfigureTexts,
                 pk \in {NoText, PackageDefault},
                 todo \in BOOLEAN}
    /\ out = <<>>
    /\ pc = "idle"
    /\ pending = <<>>
    /\ cur = <<>>
    /\ pre = fs
    /\ arg = NoArg
    /\ nops = 0

SetupOpenapiServe ==
    /\ nops < MaxOps
    /\ Ran(setup_openapiserve(fs), [NoArg EXCEPT !.op = "setup_openapiserve"])

SetupOpenapiMiddleware ==
    /\ nops < MaxOps
    /\ Ran(setup_openapimiddleware(fs), [NoArg EXCEPT !.op = "setup_openapimiddleware"])

CleanVaporProject ==
    /\ nops < MaxOps
    /\ \E controllers \in Orders(listdir(fs, controllers_dir)),
          migrations \in Orders(listdir(fs, migrations_dir)) :
          Ran(clean_vapor_project(fs, controllers, migrations),
              [NoArg EXCEPT !.op = "clean_vapor_project"])

NextSetup ==
    SetupOpenapiServe \/ SetupOpenapiMiddleware \/ SetupRedoc \/ CleanVaporProject \/ Rollback

SpecSetup == InitSetup /\ [][NextSetup]_vars

-----------------------------------------------------------------------------
(* C9 *)

\* The number of places of the text s where the block p stands.
Count(p, s) ==
    Cardinality({i \in 0..(Len(s) - Len(p)) : SubSeq(s, i + 1, i + Len(p)) = p})

\* The text of file p, empty when there is no such file.
Text(f, p) == IF isfile(f, p) THEN f[p].data ELSE <<>>

\* File p holds, after the runs of the row, one more copy of the block for
\* each run.
OneCopyPerRun(p, block) ==
    Count(block, Text(fs, p)) = Count(block, Text(arg.base, p)) + arg.streak

\* C9: append_to_file inserts its content at every call: after k runs in a
\* row of a setup script each block it inserts stands k more times in its
\* target file than before the first of these runs.
C9_InsertNotIdempotent ==
    /\ (arg.op = "setup_openapiserve" /\ arg.ok) =>
          /\ OneCopyPerRun(PACKAGE_FILE, package_dependency)
          /\ OneCopyPerRun(PACKAGE_FILE, target_dependency)
          /\ OneCopyPerRun(configure_file, middleware_content)
          /\ OneCopyPerRun(routes_file, route_content)
    /\ (arg.op = "setup_openapimiddleware" /\ arg.ok) =>
          OneCopyPerRun(configure_file, configure_content)

\* setup_openapiserve ran twice in a row on a project with a configure.swift
\* and left its middleware block there twice.
C9_Witness ==
    /\ arg.op = "setup_openapiserve"
    /\ arg.ok
    /\ arg.streak = 2
    /\ isfile(arg.base, configure_file)
    /\ Count(middleware_content, Text(arg.base, configure_file)) = 0
    /\ Count(middleware_content, Text(fs, configure_file)) = 2

-----------------------------------------------------------------------------
(* shutil.move *)

\* os.rename(src, dst) of a file or a directory with all below it; a file at
\* dst is replaced.
renamed(f, src, dst) ==
    LET gone == {q \in DOMAIN f : ~IsPrefix(src, q)}
        come == {join(dst, SubSeq(q, Len(src) + 1, Len(q))) : q \in {r \in DOMAIN f : IsPrefix(src, r)}}
    IN  [q \in gone \cup come |->
            IF q \in come THEN f[join(src, SubSeq(q, Len(dst) + 1, Len(q)))] ELSE f[q]]

\* The path shutil.move(src, dst) moves to: into dst when dst is a directory
\* other than src itself.
real_dst(f, src, dst) ==
    IF isdir(f, dst) /\ src # dst THEN join(dst, <<basename(src)>>) ELSE dst

\* shutil.move(src, dst) raises: the place inside the directory dst is taken,
\* a directory is moved into itself or onto a file, a file is moved to a
\* directory that is missing, or a file lies on the way of the directories
\* that the copy of a directory would make.
move_raises(f, src, dst) ==
    LET to == real_dst(f, src, dst)
    IN  \/ ~exists(f, src)
        \/ isdir(f, dst) /\ src # dst /\ exists(f, to)
        \/ isdir(f, src) /\ src # to /\ IsPrefix(src, to)
        \/ isfile(f, dst) /\ isdir(f, src)
        \/ isfile(f, src) /\ ~isdir(f, dirname(to))
        \/ isdir(f, src) /\ \E k \in 0..(Len(to) - 1) : isfile(f, SubSeq(to, 1, k))

\* The file system after shutil.move(src, dst), when it does not raise: the
\* copy of a directory makes the directories that are missing above it.
move(f, src, dst) ==
    LET to == real_dst(f, src, dst)
    IN  renamed(makedirs(f, dirname(to)), src, to)

-----------------------------------------------------------------------------
(* The three fix_* scripts: their paths *)

FixScripts == {"fix_nested_resources", "fix_resource_conflicts", "fix_resources"}

\* CORRECT_RESOURCES_DIR, RESOURCES_DIR, APP_RESOURCES_DIR: the same directory
APP_RESOURCES_DIR == <<"Sources", "App", "Resources">>
\* CORRECT_VIEWS_DIR, VIEWS_DIR, APP_VIEWS_DIR
APP_VIEWS_DIR == <<"Sources", "App", "Resources", "Views">>
INCORRECT_RESOURCES_DIR == <<"Sources", "App", "Resources", "Sources", "App", "Resources">>
NESTED_RESOURCES_DIR == <<"Sources", "App", "Sources", "App", "Resources">>
RESOURCES_SRC == <<"Resources">>
VIEWS_SRC == <<"Resources", "Views">>
OPENAPI_SRC == <<"Resources", "openapi.yml">>
OPENAPI_DEST == <<"Sources", "App", "Resources", "openapi.yml">>

\* The directory a script moves files out of.
SourceDir(s) ==
    IF s = "fix_nested_resources" THEN INCORRECT_RESOURCES_DIR
    ELSE IF s = "fix_resource_conflicts" THEN NESTED_RESOURCES_DIR
    ELSE VIEWS_SRC

\* The directory a script moves them into.
DestDir(s) == IF s = "fix_resources" THEN APP_VIEWS_DIR ELSE APP_RESOURCES_DIR

\* The directory the walking scripts remove after the loop:
\* os.path.join(CORRECT_RESOURCES_DIR, "Sources"), os.path.join(APP_DIR, "Sources").
RemovedDir(s) ==
    IF s = "fix_nested_resources" THEN join(APP_RESOURCES_DIR, <<"Sources">>)
    ELSE join(APP_DIR, <<"Sources">>)

-----------------------------------------------------------------------------
(* The three fix_* scripts: the edits of Package.swift *)

ResourcesOpener == <<"resources: [">>
ExcludeOpener == <<"exclude: [">>

\* The two lines every script inserts after the resources opener.
NewViewsEntry ==
    <<"                ", ".process(\"", "Sources/App/", "Resources", "/Views", "\"),", NL>>
NewOpenapiEntry ==
    <<"                ", ".process(\"", "Sources/App/", "Resources", "/openapi.yml", "\"),", NL>>

\* EXCLUDE_FILES, as the lines f'        "{exclude}",\n'
ExcludeEntries ==
    << <<"        \"", ".build/checkouts/leaf-kit/Sources/LeafKit/Docs.docc", "\",", NL>>,
       <<"        \"", ".build/checkouts/swift-algorithms/Sources/Algorithms/Documentation.docc",
         "\",", NL>> >>

\* The test that makes the resources loop of a script skip a line.
Skipped(s, line) ==
    IF s = "fix_nested_resources"
    THEN Contains(<<".process(\"", "Sources/App/", "Sources/App/", "Resources">>, line)
    ELSE IF s = "fix_resource_conflicts"
    THEN Contains(<<".process(\"", "Sources/App/", "Resources">>, line)
    ELSE /\ Contains(<<".process(\"", "Resources">>, line)
         /\ \/ Contains(<<"Resources", "/Views">>, line)
            \/ Contains(<<"Resources", "/openapi.yml">>, line)

\* The loop of Step 3 over the lines left, with the flag resources_updated.
RECURSIVE resources_loop(_, _, _)
resources_loop(s, lines, resources_updated) ==
    IF lines = <<>> THEN <<>>
    ELSE LET line == Head(lines)
         IN  IF Skipped(s, line)
             THEN resources_loop(s, Tail(lines), resources_updated)
             ELSE IF Contains(ResourcesOpener, line) /\ ~resources_updated
             THEN <<line, NewViewsEntry, NewOpenapiEntry>>
                      \o resources_loop(s, Tail(lines), TRUE)
             ELSE <<line>> \o resources_loop(s, Tail(lines), resources_updated)

\* The loop of Step 4 over the lines left, with the flag exclusions_updated.
RECURSIVE exclusions_loop(_, _)
exclusions_loop(lines, exclusions_updated) ==
    IF lines = <<>> THEN <<>>
    ELSE LET line == Head(lines)
         IN  IF Contains(ExcludeOpener, line) /\ ~exclusions_updated
             THEN <<line>> \o ExcludeEntries \o exclusions_loop(Tail(lines), TRUE)
             ELSE <<line>> \o exclusions_loop(Tail(lines), exclusions_updated)

\* Step 3 of a script, as a step of its run.
update_resources(st, s) ==
    IF ~st.ok THEN st
    ELSE IF ~exists(st.fs, PACKAGE_FILE)
         THEN printed(st, <<"Error: does not exist", PACKAGE_FILE>>)
    ELSE IF isdir(st.fs, PACKAGE_FILE) THEN Crash(st)
    ELSE LET package_content == readlines(st.fs[PACKAGE_FILE].data)
             updated_content == resources_loop(s, package_content, FALSE)
         IN  printed(written(st, PACKAGE_FILE, writelines(updated_content)),
                     <<"Updated with correct resource paths", PACKAGE_FILE>>)

\* Step 4 of a script, as a step of its run.
update_exclusions(st) ==
    IF ~st.ok THEN st
    ELSE IF ~exists(st.fs, PACKAGE_FILE)
         THEN printed(st, <<"Error: does not exist", PACKAGE_FILE>>)
    ELSE IF isdir(st.fs, PACKAGE_FILE) THEN Crash(st)
    ELSE LET package_content == readlines(st.fs[PACKAGE_FILE].data)
             updated_content == exclusions_loop(package_content, FALSE)
         IN  printed(written(st, PACKAGE_FILE, writelines(updated_content)),
                     <<"Added exclusions", PACKAGE_FILE>>)

-----------------------------------------------------------------------------
(* The fix specification: the three fix_* scripts, step by step, on a      *)
(* project with misplaced resources, or with any short Package.swift.      *)
(* A run can be cut short from outside between any two of its steps.       *)

NoCur == [root |-> <<>>, files |-> {}]
Stopped == {"idle", "done", "killed", "crashed"}
Running == {"walk", "views", "openapi", "package", "exclude"}

\* The files of the misplaced tree, relative to the directory they are in.
RelFiles == {<<"openapi.yml">>, <<"Views", "index.leaf">>, <<"Sources", "x.txt">>}
\* The files that may already be at the destination.
DestRel == {<<"openapi.yml">>, <<"Views", "index.leaf">>}

MisplacedText(rel) == <<"misplaced", basename(rel), NL>>
InPlaceText(rel) == <<"in place", basename(rel), NL>>

\* The file beside the source directory of layout s that is no part of it:
\* a file next to the nested Resources directory, or Resources/openapi.yml.
Beside(s) ==
    IF s = "fix_resources" THEN OPENAPI_SRC
    ELSE join(dirname(SourceDir(s)), <<"main.swift">>)

\* The lines a short Package.swift is made of.
ResourcesLine == <<"            ", "resources: [", NL>>
ResourcesLineOpen == <<"            ", "resources: [">>
ResourcesInline ==
    <<"            ", "resources: [", ".process(\"", "Sources/App/", "Resources", "/Views",
      "\")", "],", NL>>
ExcludeLine == <<"            ", "exclude: [", NL>>
NestedEntry ==
    <<"                ", ".process(\"", "Sources/App/", "Sources/App/", "Resources", "/Views",
      "\"),", NL>>
RootEntry == <<"                ", ".process(\"", "Resources", "/Views", "\"),", NL>>
CloseLine == <<"            ],", NL>>
PackageLines ==
    {ResourcesLine, ResourcesLineOpen, ResourcesInline, ExcludeLine, NestedEntry, RootEntry,
     NewViewsEntry, ExcludeEntries[1], CloseLine}
PackageDocs ==
    {writelines(ls) : ls \in UNION {[1..k -> PackageLines] : k \in 0..MaxPkgLines}}

\* A Package.swift with one resources block and one exclude block.
PackageSimple == writelines(<<ResourcesLine, CloseLine, ExcludeLine, CloseLine>>)

\* The project with the misplaced files S in the source directory of layout
\* s, the files T already at its destination, and perhaps the file beside.
FixProject(s, S, T, beside, pk) ==
    LET src == [p \in {join(SourceDir(s), rel) : rel \in S} |->
                   MisplacedText(SubSeq(p, Len(SourceDir(s)) + 1, Len(p)))]
        dst == [p \in {join(DestDir(s), rel) : rel \in T} |->
                   InPlaceText(SubSeq(p, Len(DestDir(s)) + 1, Len(p)))]
        bes == [p \in (IF beside THEN {Beside(s)} ELSE {}) |-> <<"beside", NL>>]
        pkg == [p \in (IF pk = NoText THEN {} ELSE {PACKAGE_FILE}) |-> pk]
    IN  Tree({APP_DIR, SourceDir(s)}, Over(Over(Over(src, dst), bes), pkg))

InitFix ==
    /\ fs \in {FixProject(s, S, T, beside, PackageSimple) :
                 s \in FixScripts, S \in SUBSET RelFiles, T \in SUBSET DestRel,
                 beside \in BOOLEAN}
              \cup {Tree({APP_DIR}, [p \in {PACKAGE_FILE} |-> pk]) : pk \in PackageDocs}
              \cup {Tree({APP_DIR}, <<>>)}
    /\ out = <<>>
    /\ pc = "idle"
    /\ pending = <<>>
    /\ cur = NoCur
    /\ pre = fs
    /\ arg = NoArg
    /\ nops = 0

\* The run ends on an uncaught exception, the file system as it is by then.
Crashed(f) ==
    /\ fs' = f
    /\ pc' = "crashed"
    /\ out' = Append(out, <<"Traceback">>)
    /\ arg' = [arg EXCEPT !.ok = FALSE, !.cut = arg.cut + 1]
    /\ pending' = <<>>
    /\ cur' = NoCur
    /\ UNCHANGED <<pre, nops>>

\* Step 1 cannot be done, or os.listdir(VIEWS_SRC) is given a file.
BeginRaises(s) ==
    \/ ~CanMakedirs(fs, APP_VIEWS_DIR)
    \/ s = "fix_resources" /\ isfile(fs, VIEWS_SRC)

\* Step 1, and the test that opens Step 2.
Begin(s) ==
    /\ pc \in Stopped
    /\ nops < MaxRuns
    /\ nops' = nops + 1
    /\ pre' = fs
    /\ LET a == IF arg.op = s
                THEN [arg EXCEPT !.ok = TRUE, !.streak = arg.streak + 1]
                ELSE [NoArg EXCEPT !.op = s, !.streak = 1, !.base = fs]
       IN  arg' = IF BeginRaises(s) THEN [a EXCEPT !.ok = FALSE, !.cut = a.cut + 1] ELSE a
    /\ pending' = IF ~BeginRaises(s) /\ s # "fix_resources" /\ exists(fs, SourceDir(s))
                  THEN <<SourceDir(s)>> ELSE <<>>
    /\ IF BeginRaises(s)
       THEN /\ fs' = IF CanMakedirs(fs, APP_VIEWS_DIR) THEN makedirs(fs, APP_VIEWS_DIR) ELSE fs
            /\ pc' = "crashed"
            /\ out' = << <<"Traceback">> >>
            /\ cur' = NoCur
       ELSE /\ fs' = makedirs(fs, APP_VIEWS_DIR)
            /\ IF ~exists(fs, SourceDir(s))
               THEN /\ out' = << <<"does not exist", SourceDir(s)>> >>
                    /\ pc' = IF s = "fix_resources" THEN "openapi" ELSE "package"
                    /\ cur' = NoCur
               ELSE IF s = "fix_resources"
               THEN /\ out' = <<>>
                    /\ pc' = "views"
                    /\ cur' = [root |-> VIEWS_SRC, files |-> listdir(fs, VIEWS_SRC)]
               ELSE /\ out' = <<>>
                    /\ pc' = "walk"
                    /\ cur' = NoCur

\* os.walk takes the next directory: its files are listed now, and its
\* directories are put first on the stack, in the order the listing gave.
WalkList ==
    /\ pc = "walk"
    /\ cur.files = {}
    /\ pending # <<>>
    /\ LET d == Head(pending)
           names == listdir(fs, d)
           subdirs == {n \in names : isdir(fs, join(d, <<n>>))}
       IN  IF ~isdir(fs, d)
           THEN /\ pending' = Tail(pending)
                /\ cur' = NoCur
           ELSE \E q \in Orders(subdirs) :
                   /\ pending' = [i \in 1..Len(q) |-> join(d, <<q[i]>>)] \o Tail(pending)
                   /\ cur' = [root |-> d, files |-> names \ subdirs]
    /\ UNCHANGED <<fs, out, pc, pre, arg, nops>>

\* The body of the inner loop for one file of the directory walked.
WalkMove ==
    /\ pc = "walk"
    /\ \E file \in cur.files :
          LET src_file == join(cur.root, <<file>>)
              relative_path == SubSeq(cur.root, Len(SourceDir(arg.op)) + 1, Len(cur.root))
              dest_dir == join(DestDir(arg.op), relative_path)
              f1 == makedirs(fs, dest_dir)
          IN  IF ~CanMakedirs(fs, dest_dir) THEN Crashed(fs)
              ELSE IF move_raises(f1, src_file, join(dest_dir, <<file>>)) THEN Crashed(f1)
              ELSE /\ fs' = move(f1, src_file, join(dest_dir, <<file>>))
                   /\ cur' = [cur EXCEPT !.files = cur.files \ {file}]
                   /\ UNCHANGED <<out, pc, pending, pre, arg, nops>>

\* After the walk: the message and shutil.rmtree of the "Sources" directory.
WalkDone ==
    /\ pc = "walk"
    /\ cur.files = {}
    /\ pending = <<>>
    /\ IF ~isdir(fs, RemovedDir(arg.op)) THEN Crashed(fs)
       ELSE /\ fs' = Drop(fs, RemovedDir(arg.op))
            /\ out' = Append(out, <<"Moved resources", SourceDir(arg.op)>>)
            /\ pc' = "package"
            /\ cur' = NoCur
            /\ UNCHANGED <<pending, pre, arg, nops>>

\* fix_resources: one round of the loop over os.listdir(VIEWS_SRC).
ViewsMove ==
    /\ pc = "views"
    /\ \E file \in cur.files :
          LET src_file == join(VIEWS_SRC, <<file>>)
              dest_file == join(APP_VIEWS_DIR, <<file>>)
          IN  IF move_raises(fs, src_file, dest_file) THEN Crashed(fs)
              ELSE /\ fs' = move(fs, src_file, dest_file)
                   /\ cur' = [cur EXCEPT !.files = cur.files \ {file}]
                   /\ UNCHANGED <<out, pc, pending, pre, arg, nops>>

\* fix_resources: the loop is over.
ViewsDone ==
    /\ pc = "views"
    /\ cur.files = {}
    /\ out' = Append(out, <<"Moved Views", APP_VIEWS_DIR>>)
    /\ pc' = "openapi"
    /\ cur' = NoCur
    /\ UNCHANGED <<fs, pending, pre, arg, nops>>

\* fix_resources: the move of Resources/openapi.yml.
MoveOpenapi ==
    /\ pc = "openapi"
    /\ IF ~exists(fs, OPENAPI_SRC)
       THEN /\ out' = Append(out, <<"does not exist", OPENAPI_SRC>>)
            /\ pc' = "package"
            /\ UNCHANGED <<fs, pending, cur, pre, arg, nops>>
       ELSE IF move_raises(fs, OPENAPI_SRC, OPENAPI_DEST) THEN Crashed(fs)
       ELSE /\ fs' = move(fs, OPENAPI_SRC, OPENAPI_DEST)
            /\ out' = Append(out, <<"Moved openapi.yml", OPENAPI_DEST>>)
            /\ pc' = "package"
            /\ UNCHANGED <<pending, cur, pre, arg, nops>>

\* The end of a text step of a run.
Stepped(r, next) ==
    IF ~r.ok THEN Crashed(r.fs)
    ELSE /\ fs' = r.fs
         /\ out' = r.out
         /\ pc' = next
         /\ UNCHANGED <<pending, cur, pre, arg, nops>>

\* Step 3: the resources block of Package.swift.
UpdateResources ==
    /\ pc = "package"
    /\ Stepped(update_resources([fs |-> fs, out |-> out, ok |-> TRUE], arg.op), "exclude")

\* Step 4: the exclude block of Package.swift, and the last message.
UpdateExclusions ==
    /\ pc = "exclude"
    /\ Stepped(printed(update_exclusions([fs |-> fs, out |-> out, ok |-> TRUE]),
                       <<"Rebuild your project">>),
               "done")

\* The process is stopped from outside between two steps.
Interrupt ==
    /\ pc \in Running
    /\ pc' = "killed"
    /\ arg' = [arg EXCEPT !.cut = arg.cut + 1]
    /\ pending' = <<>>
    /\ cur' = NoCur
    /\ UNCHANGED <<fs, out, pre, nops>>

NextFix ==
    \/ \E s \in FixScripts : Begin(s)
    \/ WalkList
    \/ WalkMove
    \/ WalkDone
    \/ ViewsMove
    \/ ViewsDone
    \/ MoveOpenapi
    \/ UpdateResources
    \/ UpdateExclusions
    \/ Interrupt

SpecFix == InitFix /\ [][NextFix]_vars

-----------------------------------------------------------------------------
(* Notions shared by the claims about the fix_* scripts *)

\* The files below directory d of file system f, relative to d.
FilesBelow(f, d) ==
    {SubSeq(p, Len(d) + 1, Len(p)) : p \in {q \in DOMAIN f : IsPrefix(d, q) /\ isfile(f, q)}}

\* The relative paths at which both the source and the destination of
\* script s hold a file.
Collisions(s, f) ==
    {rel \in FilesBelow(f, SourceDir(s)) : isfile(f, join(DestDir(s), rel))}

\* The merge of the script that runs has just ended, or was skipped for want
\* of a source directory.
MergeOver ==
    /\ arg.op \in FixScripts
    /\ pc = IF arg.op = "fix_resources" THEN "openapi" ELSE "package"

\* The messages printed so far, as a set.
Reported == {out[i] : i \in 1..Len(out)}

\* The lines of Package.swift in file system f.
PackageLinesOf(f) == readlines(Text(f, PACKAGE_FILE))

\* The number of lines of Package.swift in f that contain the text e.
LinesWith(f, e) ==
    Cardinality({i \in 1..Len(PackageLinesOf(f)) : Contains(e, PackageLinesOf(f)[i])})

\* An entry line without its indentation and its newline.
Entry(line) == SubSeq(line, 2, Len(line) - 1)

\* The entries the scripts ask for.
RequestedEntries ==
    {Entry(NewViewsEntry), Entry(NewOpenapiEntry),
     Entry(ExcludeEntries[1]), Entry(ExcludeEntries[2])}

-----------------------------------------------------------------------------
(* C3 *)

\* C3: a second run in a row of a fix_* script, after a first that reached
\* its end, leaves Package.swift as the first left it, and no requested
\* entry that stood on at most one line before the runs stands on more
\* than one line after them.
C3_EnsureEntriesIdempotent ==
    (pc = "done" /\ arg.cut = 0) =>
        /\ arg.streak >= 2 => Text(fs, PACKAGE_FILE) = Text(pre, PACKAGE_FILE)
        /\ \A e \in RequestedEntries :
              LinesWith(arg.base, e) <= 1 => LinesWith(fs, e) <= 1

-----------------------------------------------------------------------------
(* C4 *)

\* C4: when the merge of a fix_* script is over, every file that stood both
\* under the source and at the same relative path of the destination has been
\* reported as a conflict, and both copies are where and as they were.
C4_ConflictKeepsBoth ==
    (MergeOver /\ arg.cut = 0) =>
        \A rel \in Collisions(arg.op, pre) :
            LET s == join(SourceDir(arg.op), rel)
                d == join(DestDir(arg.op), rel)
            IN  /\ <<"ConflictDetected", d>> \in Reported
                /\ isfile(fs, s) /\ fs[s] = pre[s]
                /\ isfile(fs, d) /\ fs[d] = pre[d]

-----------------------------------------------------------------------------
(* C5 *)

\* C5: after the merge of a source directory none of whose files collides
\* with the destination, every file of the source is at the same relative
\* path of the destination with its text, and the source directory is gone;
\* a run that finds no source directory changes nothing and says so.
C5_MergeMovesAll ==
    (MergeOver /\ arg.cut = 0) =>
        /\ (isdir(pre, SourceDir(arg.op)) /\ Collisions(arg.op, pre) = {}) =>
              /\ \A rel \in FilesBelow(pre, SourceDir(arg.op)) :
                    /\ isfile(fs, join(DestDir(arg.op), rel))
                    /\ fs[join(DestDir(arg.op), rel)] = pre[join(SourceDir(arg.op), rel)]
              /\ ~exists(fs, SourceDir(arg.op))
        /\ (~exists(pre, SourceDir(arg.op)) /\ isdir(pre, APP_VIEWS_DIR)) =>
              /\ fs = pre
              /\ out = << <<"does not exist", SourceDir(arg.op)>> >>

-----------------------------------------------------------------------------
(* C7 *)

\* No line of Package.swift in f contains the opener.
NoOpener(f, opener) == isfile(f, PACKAGE_FILE) /\ LinesWith(f, opener) = 0

\* Every line of Package.swift in f is a line of Package.swift in g.
NothingInserted(f, g) ==
    \A i \in 1..Len(PackageLinesOf(f)) :
        \E j \in 1..Len(PackageLinesOf(g)) : PackageLinesOf(f)[i] = PackageLinesOf(g)[j]

\* C7: an edit that finds no line with its opener reports BlockNotFound,
\* does not report the edit as done, and inserts nothing.
C7_BlockNotFound ==
    /\ (pc = "exclude" /\ NoOpener(pre, ResourcesOpener)) =>
          /\ <<"BlockNotFound", ResourcesOpener>> \in Reported
          /\ <<"Updated with correct resource paths", PACKAGE_FILE>> \notin Reported
          /\ NothingInserted(fs, pre)
    /\ (pc = "done" /\ NoOpener(pre, ExcludeOpener)) =>
          /\ <<"BlockNotFound", ExcludeOpener>> \in Reported
          /\ <<"Added exclusions", PACKAGE_FILE>> \notin Reported
          /\ NothingInserted(fs, pre)

-----------------------------------------------------------------------------
(* C10 *)

\* C10: when the runs of a script before this one were all stopped short and
\* this one has finished its merge, every file the source held before the
\* first run is at the same relative path of the destination with its
\* text, and the source directory is gone.
C10_MergeRestartable ==
    (MergeOver /\ arg.ok /\ arg.streak >= 2 /\ arg.cut = arg.streak - 1
        /\ isdir(arg.base, SourceDir(arg.op)) /\ Collisions(arg.op, arg.base) = {}) =>
        /\ \A rel \in FilesBelow(arg.base, SourceDir(arg.op)) :
              /\ isfile(fs, join(DestDir(arg.op), rel))
              /\ fs[join(DestDir(arg.op), rel)] = arg.base[join(SourceDir(arg.op), rel)]
        /\ ~exists(fs, SourceDir(arg.op))

-----------------------------------------------------------------------------
(* C11 *)

\* Document R is document D with some lines put in at one place: every line
\* of D is a whole line of R, none split, none merged, in D's order.
LinesPutIn(R, D) ==
    /\ Len(R) >= Len(D)
    /\ \E i \in 0..Len(D) :
          /\ SubSeq(R, 1, i) = SubSeq(D, 1, i)
          /\ SubSeq(R, i + 1 + (Len(R) - Len(D)), Len(R)) = SubSeq(D, i + 1, Len(D))

\* C11: append_to_file on an existing file neither splits nor merges a line
\* of the document and keeps the lines in their order; a last line without
\* a newline and the first inserted line are two lines of the written file.
C11_LinesKeptWhole ==
    (arg.op = "append_to_file" /\ arg.ok /\ isfile(pre, arg.path)) =>
        LinesPutIn(DocLines(fs[arg.path].data), DocLines(pre[arg.path].data))

-----------------------------------------------------------------------------
(* C12 *)

\* The line ends a list block.
ClosesBlock(line) == \E k \in 1..Len(line) : line[k] \in {"            ],", "],"}

\* The indexes of the lines of P that contain the opener.
Openers(P, opener) == {i \in 1..Len(P) : Contains(opener, P[i])}

\* Line i of P lies inside the block of the first line with the opener:
\* after that line, and with no end of the block from there up to i.
InBlock(P, opener, i) ==
    /\ Openers(P, opener) # {}
    /\ Nth(Openers(P, opener), 1) < i
    /\ \A j \in Nth(Openers(P, opener), 1)..i : ~ClosesBlock(P[j])

\* The lines of P from index i on whose indexes are in the set S.
RECURSIVE Pick(_, _, _)
Pick(P, S, i) ==
    IF i > Len(P) THEN <<>>
    ELSE (IF i \in S THEN <<P[i]>> ELSE <<>>) \o Pick(P, S, i + 1)

\* The lines of A are lines of B, in A's order.
RECURSIVE IsSubSeq(_, _)
IsSubSeq(A, B) ==
    IF A = <<>> THEN TRUE
    ELSE IF B = <<>> THEN FALSE
    ELSE IF Head(A) = Head(B) THEN IsSubSeq(Tail(A), Tail(B))
    ELSE IsSubSeq(A, Tail(B))

\* The lines of Package.swift in f that the resources edit of script s has
\* no call to touch: all but the obsolete entries inside the edited block.
Framed(s, f) ==
    LET P == PackageLinesOf(f)
    IN  Pick(P, {i \in 1..Len(P) : ~(Skipped(s, P[i]) /\ InBlock(P, ResourcesOpener, i))}, 1)

\* C12: after the resources edit of Package.swift, and after the exclude edit
\* that follows it, every line of the file that was not an obsolete entry
\* inside the edited block is still there, unchanged and in its order.
C12_ListBlockFrame ==
    (pc \in {"exclude", "done"} /\ arg.op \in FixScripts /\ isfile(pre, PACKAGE_FILE)) =>
        IsSubSeq(Framed(arg.op, pre), PackageLinesOf(fs))

-----------------------------------------------------------------------------
(* C13 *)

\* The lines a..b of P whose indexes are not in the set Gone.
Left(P, Gone, a, b) == Pick(P, (a..b) \ Gone, 1)

\* The indexes of the lines of P that the skip test of script s matches.
Obsolete(s, P) == {i \in 1..Len(P) : Skipped(s, P[i])}

\* R is P with the entries right after the first of several lines with the
\* opener, and with the second such line and all after it as they were;
\* before the second, the lines of Gone may have gone.
AfterFirstOnly(R, P, opener, entries, Gone) ==
    Cardinality(Openers(P, opener)) >= 2 =>
        LET o1 == Nth(Openers(P, opener), 1)
            o2 == Nth(Openers(P, opener), 2)
        IN  R = Left(P, Gone, 1, o1 - 1) \o <<P[o1]>> \o entries
                    \o Left(P, Gone, o1 + 1, o2 - 1) \o SubSeq(P, o2, Len(P))

\* The lines of Package.swift between the two edits of a run of script s
\* that began in file system f.
BetweenEdits(s, f) == readlines(writelines(resources_loop(s, PackageLinesOf(f), FALSE)))

\* C13: when several lines of Package.swift contain the opener, each edit
\* puts its entries, in their order, right after the first of them only, and
\* the later opener lines and the lines after them are left as they were.
C13_FirstOpenerOnly ==
    /\ (pc = "exclude" /\ arg.op \in FixScripts /\ isfile(pre, PACKAGE_FILE)) =>
          AfterFirstOnly(PackageLinesOf(fs), PackageLinesOf(pre), ResourcesOpener,
                         <<NewViewsEntry, NewOpenapiEntry>>,
                         Obsolete(arg.op, PackageLinesOf(pre)))
    /\ (pc = "done" /\ arg.op \in FixScripts /\ isfile(pre, PACKAGE_FILE)) =>
          AfterFirstOnly(PackageLinesOf(fs), BetweenEdits(arg.op, pre), ExcludeOpener,
                         ExcludeEntries, {})

-----------------------------------------------------------------------------
(* C14 *)

\* The files of file system f that the merge of script s has no call to
\* move: the files that are not under its source directory (nor, for
\* fix_resources, the openapi.yml it moves by name).
NotToMove(s, f) ==
    {p \in DOMAIN f : /\ isfile(f, p)
                      /\ ~IsPrefix(SourceDir(s), p)
                      /\ ~(s = "fix_resources" /\ p = OPENAPI_SRC)}

\* C14: all through a run of a fix_* script every file and directory stands
\* in a directory that exists and no file that the merge had no call to move
\* has gone; and when the merge of a source directory has ended, that
\* directory is gone, whichever the script.
C14_MergeCleanup ==
    arg.op \in FixScripts =>
        /\ \A p \in DOMAIN fs : p # <<>> => isdir(fs, dirname(p))
        /\ \A p \in NotToMove(arg.op, pre) : isfile(fs, p)
        /\ (MergeOver /\ arg.cut = 0 /\ exists(pre, SourceDir(arg.op)))
              => ~exists(fs, SourceDir(arg.op))

-----------------------------------------------------------------------------
(* C15 *)

\* The scripts whose changes rollback_redoc_setup is there to undo.
RedocSetups == {"setup_openapiserve", "setup_vapor_redoc"}

\* File p is in file system f what it is in file system g: there with the
\* same text, or not there.
SameFile(f, g, p) ==
    /\ exists(f, p) <=> exists(g, p)
    /\ exists(f, p) => f[p] = g[p]

\* C15: after a setup and then rollback_redoc_setup, routes.swift and
\* configure.swift are what they were before the setup and nothing that was
\* in the project before the setup is gone; a second rollback right after
\* the first changes nothing.
C15_RollbackInverse ==
    /\ (arg.op = "rollback" /\ arg.ok /\ arg.streak = 1 /\ arg.from \in RedocSetups) =>
          /\ SameFile(fs, arg.origin, routes_file)
          /\ SameFile(fs, arg.origin, configure_file)
          /\ \A p \in DOMAIN arg.origin : exists(fs, p) /\ fs[p].kind = arg.origin[p].kind
    /\ (arg.op = "rollback" /\ arg.ok /\ arg.streak >= 2) => fs = pre

-----------------------------------------------------------------------------
(* C16 *)

\* Package.swift in f has a first line with the resources opener, and that
\* line holds no entry that the skip test of fix_resource_conflicts matches.
CleanOpener(f) ==
    /\ isfile(f, PACKAGE_FILE)
    /\ Openers(PackageLinesOf(f), ResourcesOpener) # {}
    /\ ~Skipped("fix_resource_conflicts",
                PackageLinesOf(f)[Nth(Openers(PackageLinesOf(f), ResourcesOpener), 1)])

\* The first line of P with the resources opener.
FirstOpener(P) == P[Nth(Openers(P, ResourcesOpener), 1)]

\* In R the two entries stand on one line each, right after the first line
\* with the resources opener, which is the line opener.
EntriesOnce(R, opener) ==
    /\ Openers(R, ResourcesOpener) # {}
    /\ LET o == Nth(Openers(R, ResourcesOpener), 1)
       IN  /\ R[o] = opener
           /\ Len(R) >= o + 2
           /\ R[o + 1] = NewViewsEntry
           /\ R[o + 2] = NewOpenapiEntry
    /\ Cardinality({i \in 1..Len(R) : Contains(Entry(NewViewsEntry), R[i])}) = 1
    /\ Cardinality({i \in 1..Len(R) : Contains(Entry(NewOpenapiEntry), R[i])}) = 1

\* C16: after any number of runs in a row of fix_resource_conflicts on a
\* Package.swift whose first resources opener line holds no entry of its own,
\* the file has each of the two resources entries on exactly one line, both
\* right after that opener; the exclude entries, which no step removes,
\* stand on as many lines as there were runs, or more.
C16_ResourcesExactlyOnce ==
    (arg.op = "fix_resource_conflicts" /\ arg.cut = 0) =>
        /\ (pc \in {"exclude", "done"} /\ CleanOpener(arg.base)) =>
              EntriesOnce(PackageLinesOf(fs), FirstOpener(PackageLinesOf(arg.base)))
        /\ (pc = "done" /\ isfile(arg.base, PACKAGE_FILE)
               /\ Openers(PackageLinesOf(arg.base), ExcludeOpener) # {}) =>
              \A k \in 1..Len(ExcludeEntries) :
                  LinesWith(fs, Entry(ExcludeEntries[k])) >= arg.streak

====
